---- MODULE Spec2Model ----
(***************************************************************************)
(* Behavioural model of the runnable snippets of the TypeScript course:    *)
(*   lesson-04-classes.ts    Temperature, DatabaseConnection               *)
(*   lesson-03-functions.ts  fetchDataSafe                                 *)
(*   unnamed/part_000        ErrorBoundary                                 *)
(*   react-hoc-example.tsx   withAuth, withLoading, compose                *)
(*   lesson-05-generics.ts   swapArrayElements, swapArrayElementsInPlace   *)
(*   unnamed/part_002        assertIsString                                *)
(*                                                                         *)
(* Numbers of the Temperature class are exact rationals, stored as         *)
(* integers in units of 1/900 degree Celsius; inputs are given in          *)
(* hundredths of a degree, so that (value - 32) * 5 / 9 is computed        *)
(* without loss.                                                           *)
(***************************************************************************)
EXTENDS Integers, Sequences, FiniteSets, TLC

VARIABLES
  \* lesson-04-classes.ts
  _celsius,        \* Temperature._celsius, in 1/900 degree Celsius
  tempOp,          \* the last accessor call on the Temperature object
  instance,        \* DatabaseConnection.instance (0 = undefined, else object id)
  constructed,     \* number of DatabaseConnection objects constructed so far
  returned,        \* the object ids returned by getInstance() so far
  calls,           \* number of getInstance() calls made so far
  \* lesson-03-functions.ts, lesson-02-interfaces-types.ts
  fetches,         \* the invocations of fetchDataSafe, by call number
  \* unnamed/part_000 (ErrorBoundary)
  props,           \* this.props: fallback, onError, and the userId of the child
  state,           \* this.state: hasError, error
  phase,           \* where React is with the boundary
  output,          \* what the last call of render() returned
  thrown,          \* the error a child threw since the last reset, if any
  reported,        \* the errors handed to props.onError so far
  \* react-hoc-example.tsx (withAuth)
  token,           \* localStorage.getItem('token')
  isAuthenticated, \* useState(false), by mounted component
  checking,        \* useState(true), by mounted component
  authPhase,       \* where React is with each component
  effectPending,   \* the effect of useEffect(..., []) is still to run
  found,           \* what the authentication check of each component read
  screen,          \* what the last render of each component returned
  \* react-hoc-example.tsx (compose)
  funcs,           \* the arguments of compose(...funcs)
  component,       \* the argument of the function compose returns
  composed,        \* what that function returned
  \* lesson-05-generics.ts (swapArrayElements, swapArrayElementsInPlace)
  original,        \* the contents of the caller's array before any call
  index1,          \* the indices passed to every call
  index2,
  heap,            \* the arrays swapArrayElements was given or has made
  chain,           \* the array given to swapArrayElements, then each array
                   \* it returned, every one handed to the next call
  threw,           \* what the last call of swapArrayElements threw
  arr,             \* the array given to swapArrayElementsInPlace
  inPlaceCalls,    \* the number of its calls that returned
  inPlaceThrew,    \* what its last call threw
  \* react-hoc-example.tsx (withLoading)
  loadingProps,    \* the props WithLoadingComponent was last given
  loadingPhase,    \* where React is with the component
  loadingOutput,   \* what the last call of WithLoadingComponent returned
  \* unnamed/part_002 (assertIsString)
  asserted         \* the calls of assertIsString made so far

temperatureVars == <<_celsius, tempOp>>

databaseVars == <<instance, constructed, returned, calls>>

fetchVars == <<fetches>>

boundaryVars == <<props, state, phase, output, thrown, reported>>

authVars ==
  <<token, isAuthenticated, checking, authPhase, effectPending, found, screen>>

composeVars == <<funcs, component, composed>>

swapVars ==
  <<original, index1, index2, heap, chain, threw, arr, inPlaceCalls,
    inPlaceThrew>>

loadingVars == <<loadingProps, loadingPhase, loadingOutput>>

assertVars == <<asserted>>

vars ==
  <<temperatureVars, databaseVars, fetchVars, boundaryVars, authVars,
    composeVars, swapVars, loadingVars, assertVars>>

\* what an operation of one part leaves alone
exceptTemperature ==
  <<databaseVars, fetchVars, boundaryVars, authVars, composeVars, swapVars,
    loadingVars, assertVars>>

exceptDatabase ==
  <<temperatureVars, fetchVars, boundaryVars, authVars, composeVars, swapVars,
    loadingVars, assertVars>>

exceptFetch ==
  <<temperatureVars, databaseVars, boundaryVars, authVars, composeVars,
    swapVars, loadingVars, assertVars>>

exceptBoundary ==
  <<temperatureVars, databaseVars, fetchVars, authVars, composeVars, swapVars,
    loadingVars, assertVars>>

exceptAuth ==
  <<temperatureVars, databaseVars, fetchVars, boundaryVars, composeVars,
    swapVars, loadingVars, assertVars>>

exceptCompose ==
  <<temperatureVars, databaseVars, fetchVars, boundaryVars, authVars,
    swapVars, loadingVars, assertVars>>

exceptSwap ==
  <<temperatureVars, databaseVars, fetchVars, boundaryVars, authVars,
    composeVars, loadingVars, assertVars>>

exceptLoading ==
  <<temperatureVars, databaseVars, fetchVars, boundaryVars, authVars,
    composeVars, swapVars, assertVars>>

exceptAssert ==
  <<temperatureVars, databaseVars, fetchVars, boundaryVars, authVars,
    composeVars, swapVars, loadingVars>>

----------------------------------------------------------------------------
(* Temperature (lesson-04-classes.ts:121-142)                              *)

\* -273.15 degrees Celsius, in 1/900 degree
AbsoluteZero == -245835

\* a number given in hundredths of a degree Celsius, in 1/900 degree
OfCelsius(hundredths) == hundredths * 9

\* ((value - 32) * 5) / 9 for value given in hundredths of a degree Fahrenheit
FahrenheitToCelsius(hundredths) == (hundredths - 3200) * 5

\* get celsius()
celsius == _celsius

\* get fahrenheit(): (this._celsius * 9) / 5 + 32, in 1/500 degree Fahrenheit
fahrenheit == _celsius + 16000

\* values assigned to temp.celsius, in hundredths of a degree Celsius
CelsiusInputs == {-50000, -27316, -27315, -27314, -4000, 0, 2500, 10000}

\* values assigned to temp.fahrenheit, in hundredths of a degree Fahrenheit
FahrenheitInputs == {-100000, -45968, -45967, -45966, -4000, 3200, 7700, 10000}

NoError == "none"

BelowAbsoluteZero == "Temperature cannot be below absolute zero"

\* the guard of the celsius setter with <= in place of <
CelsiusRejectsInclusive(value) == value <= AbsoluteZero

\* if (value < -273.15) throw
CelsiusRejects(value) == value < AbsoluteZero

InitTemperature ==
  /\ _celsius = 0
  /\ tempOp = [kind |-> "new", value |-> 0, before |-> 0, threw |-> NoError]

\* temp.celsius = value
SetCelsius(h) ==
  LET value == OfCelsius(h) IN
  /\ IF CelsiusRejects(value)
       THEN /\ _celsius' = _celsius
            /\ tempOp' = [kind |-> "setCelsius", value |-> value,
                          before |-> _celsius, threw |-> BelowAbsoluteZero]
       ELSE /\ _celsius' = value
            /\ tempOp' = [kind |-> "setCelsius", value |-> value,
                          before |-> _celsius, threw |-> NoError]
  /\ UNCHANGED exceptTemperature

\* temp.fahrenheit = value
SetFahrenheit(h) ==
  /\ _celsius' = FahrenheitToCelsius(h)
  /\ tempOp' = [kind |-> "setFahrenheit", value |-> FahrenheitToCelsius(h),
                before |-> _celsius, threw |-> NoError]
  /\ UNCHANGED exceptTemperature

----------------------------------------------------------------------------
(* DatabaseConnection (lesson-04-classes.ts:298-315)                       *)

MaxCalls == 4

Undefined == 0

\* getInstance() without the test of the static field
NeedsInstanceAlways(inst) == TRUE

\* if (!DatabaseConnection.instance)
NeedsInstance(inst) == inst = Undefined

InitDatabaseConnection ==
  /\ instance = Undefined
  /\ constructed = 0
  /\ returned = {}
  /\ calls = 0

\* DatabaseConnection.getInstance()
GetInstance ==
  /\ calls < MaxCalls
  /\ calls' = calls + 1
  /\ IF NeedsInstance(instance)
       THEN /\ constructed' = constructed + 1
            /\ instance' = constructed + 1
       ELSE UNCHANGED <<constructed, instance>>
  /\ returned' = returned \cup {instance'}
  /\ UNCHANGED exceptDatabase

----------------------------------------------------------------------------
(* fetchDataSafe (lesson-03-functions.ts:152-164,                          *)
(*                lesson-02-interfaces-types.ts:388-398 and 444-455)       *)

MaxFetches == 2

FetchCalls == 1..MaxFetches

\* the three copies of the function; the one at lesson-02:388 does not log
Copies == {"lesson03_152", "lesson02_388", "lesson02_444"}

\* the copies whose catch block calls console.error
LoggingCopies == {"lesson03_152", "lesson02_444"}

IdleCall ==
  [pc |-> "idle", copy |-> "none", settled |-> "none", value |-> "none",
   failure |-> "none", logged |-> FALSE]

\* catch (error) { console.error("Failed to fetch:", error); return null; }
CatchBlock(call, failure) ==
  [call EXCEPT !.pc = "done", !.settled = "fulfilled", !.value = "null",
               !.failure = failure,
               !.logged = call.copy \in LoggingCopies]

\* return response.text() hands the promise of text() to the promise of the
\* async function, after the try block has been left: its rejection becomes
\* the rejection of the returned promise, and the catch block does not run
TextRejection(call) ==
  [call EXCEPT !.pc = "done", !.settled = "rejected", !.value = "error",
               !.failure = "body"]

InitFetch == fetches = [c \in FetchCalls |-> IdleCall]

\* fetchDataSafe(url) is called: runs to the await of fetch(url) and returns
\* a pending promise
CallFetchDataSafe(c, copy) ==
  /\ fetches[c].pc = "idle"
  /\ fetches' = [fetches EXCEPT ![c] =
       [IdleCall EXCEPT !.pc = "awaitFetch", !.copy = copy,
                        !.settled = "pending"]]
  /\ UNCHANGED exceptFetch

\* the promise of fetch(url) fulfils with a Response:
\* return response.text() resolves the returned promise with the promise of
\* text()
FetchFulfils(c) ==
  /\ fetches[c].pc = "awaitFetch"
  /\ fetches' = [fetches EXCEPT ![c].pc = "awaitText"]
  /\ UNCHANGED exceptFetch

\* the promise of fetch(url) rejects (the request fails): the await throws
\* inside try, the catch block logs and returns null
FetchRejects(c) ==
  /\ fetches[c].pc = "awaitFetch"
  /\ fetches' = [fetches EXCEPT ![c] = CatchBlock(fetches[c], "request")]
  /\ UNCHANGED exceptFetch

\* the promise of response.text() fulfils with the body text
TextFulfils(c) ==
  /\ fetches[c].pc = "awaitText"
  /\ fetches' = [fetches EXCEPT ![c] =
       [fetches[c] EXCEPT !.pc = "done", !.settled = "fulfilled",
                          !.value = "text"]]
  /\ UNCHANGED exceptFetch

\* the promise of response.text() rejects (reading the body fails)
TextRejects(c) ==
  /\ fetches[c].pc = "awaitText"
  /\ fetches' = [fetches EXCEPT ![c] = TextRejection(fetches[c])]
  /\ UNCHANGED exceptFetch

NextFetch ==
  \/ \E c \in FetchCalls, copy \in Copies : CallFetchDataSafe(c, copy)
  \/ \E c \in FetchCalls : FetchFulfils(c)
  \/ \E c \in FetchCalls : FetchRejects(c)
  \/ \E c \in FetchCalls : TextFulfils(c)
  \/ \E c \in FetchCalls : TextRejects(c)

----------------------------------------------------------------------------
(* ErrorBoundary (unnamed/part_000:12-110)                                 *)

MaxReports == 2

\* values of the optional prop fallback?: React.ReactNode
\* (0, '', false, null, no prop, <div>Custom error message</div>)
Fallbacks == {"zero", "emptyString", "false", "null", "undefined", "customNode"}

\* the values of Fallbacks that JavaScript's || takes for false
Falsy == {"zero", "emptyString", "false", "null", "undefined"}

\* <UserProfile userId={...} />; getUserById returns null for 999 only
UserIds == {123, 999}

NoProps == [fallback |-> "undefined", onError |-> FALSE, userId |-> 123]

NoErrorState == [hasError |-> FALSE, error |-> "null"]

\* getUserById(id)
getUserById(id) == IF id = 999 THEN "null" ELSE "user"

\* throw new Error(`User ${userId} not found`)
UserNotFound(id) == IF id = 999 THEN "User 999 not found" ELSE "User 123 not found"

\* static getDerivedStateFromError(error)
getDerivedStateFromError(error) == [hasError |-> TRUE, error |-> error]

\* render() with && in place of ||
renderWithAnd(st, pr) ==
  IF st.hasError
    THEN IF pr.fallback \notin Falsy
           THEN [kind |-> "defaultPanel", node |-> st.error]
           ELSE [kind |-> "fallback", node |-> pr.fallback]
    ELSE [kind |-> "children", node |-> "UserProfile"]

\* render(): this.props.fallback || (default panel), or this.props.children
render(st, pr) ==
  IF st.hasError
    THEN IF pr.fallback \notin Falsy
           THEN [kind |-> "fallback", node |-> pr.fallback]
           ELSE [kind |-> "defaultPanel", node |-> st.error]
    ELSE [kind |-> "children", node |-> "UserProfile"]

NoOutput == [kind |-> "none", node |-> "none"]

InitBoundary ==
  /\ props = NoProps
  /\ state = NoErrorState
  /\ phase = "unmounted"
  /\ output = NoOutput
  /\ thrown = "none"
  /\ reported = <<>>

\* <ErrorBoundary fallback={f} onError={h}><UserProfile userId={id} />
\* is mounted: the constructor sets the state
Mount(f, h, id) ==
  /\ phase = "unmounted"
  /\ props' = [fallback |-> f, onError |-> h, userId |-> id]
  /\ state' = NoErrorState
  /\ phase' = "render"
  /\ UNCHANGED <<output, thrown, reported>>
  /\ UNCHANGED exceptBoundary

\* React calls render(); returned children are rendered next
Render ==
  /\ phase \in {"render", "caught"}
  /\ output' = render(state, props)
  /\ phase' = IF output'.kind = "children" THEN "children"
              ELSE IF phase = "caught" THEN "didCatch" ELSE "committed"
  /\ UNCHANGED <<props, state, thrown, reported>>
  /\ UNCHANGED exceptBoundary

\* UserProfile finds its user and returns its elements
ChildRenders ==
  /\ phase = "children"
  /\ getUserById(props.userId) # "null"
  /\ phase' = "committed"
  /\ UNCHANGED <<props, state, output, thrown, reported>>
  /\ UNCHANGED exceptBoundary

\* UserProfile throws while rendering: React calls getDerivedStateFromError
\* and renders the boundary again
ChildThrows ==
  /\ phase = "children"
  /\ getUserById(props.userId) = "null"
  /\ state' = getDerivedStateFromError(UserNotFound(props.userId))
  /\ thrown' = UserNotFound(props.userId)
  /\ phase' = "caught"
  /\ UNCHANGED <<props, output, reported>>
  /\ UNCHANGED exceptBoundary

\* componentDidCatch(error, errorInfo): logs, then this.props.onError?.(...)
ComponentDidCatch ==
  /\ phase = "didCatch"
  /\ reported' = IF props.onError /\ Len(reported) < MaxReports
                   THEN Append(reported, thrown) ELSE reported
  /\ phase' = "committed"
  /\ UNCHANGED <<props, state, output, thrown>>
  /\ UNCHANGED exceptBoundary

\* the button of the default panel:
\* onClick={() => this.setState({ hasError: false, error: null })}
TryAgain ==
  /\ phase = "committed"
  /\ output.kind = "defaultPanel"
  /\ state' = NoErrorState
  /\ thrown' = "none"
  /\ phase' = "render"
  /\ UNCHANGED <<props, output, reported>>
  /\ UNCHANGED exceptBoundary

\* the parent renders the boundary again with other props
Rerender(f, h, id) ==
  /\ phase = "committed"
  /\ props' = [fallback |-> f, onError |-> h, userId |-> id]
  /\ phase' = "render"
  /\ UNCHANGED <<state, output, thrown, reported>>
  /\ UNCHANGED exceptBoundary

NextBoundary ==
  \/ \E f \in Fallbacks, h \in BOOLEAN, id \in UserIds : Mount(f, h, id)
  \/ Render
  \/ ChildRenders
  \/ ChildThrows
  \/ ComponentDidCatch
  \/ TryAgain
  \/ \E f \in Fallbacks, h \in BOOLEAN, id \in UserIds : Rerender(f, h, id)

----------------------------------------------------------------------------
(* withAuth (react-hoc-example.tsx:84-106)                                 *)

MaxComponents == 2

\* the mounted uses of components made by withAuth
\* (ProtectedUserProfile, EnhancedUserProfile)
AuthComponents == 1..MaxComponents

\* localStorage.getItem('token'): null when there is no item, else its string
Tokens == {"null", "emptyString", "abc123"}

\* !!token
Truthy(t) == t \notin {"null", "emptyString"}

\* the body of WithAuthComponent without the test of checking
WithAuthComponentUnchecked(auth, chk) ==
  IF ~auth THEN "Please log in" ELSE "WrappedComponent"

\* the body of WithAuthComponent after its hooks: what it returns
WithAuthComponent(auth, chk) ==
  IF chk THEN "Checking authentication..."
  ELSE IF ~auth THEN "Please log in"
  ELSE "WrappedComponent"

InitAuth ==
  /\ token = "null"
  /\ isAuthenticated = [c \in AuthComponents |-> FALSE]
  /\ checking = [c \in AuthComponents |-> TRUE]
  /\ authPhase = [c \in AuthComponents |-> "unmounted"]
  /\ effectPending = [c \in AuthComponents |-> FALSE]
  /\ found = [c \in AuthComponents |-> "unchecked"]
  /\ screen = [c \in AuthComponents |-> "none"]

\* localStorage.setItem('token', t) or localStorage.removeItem('token'),
\* by the rest of the application
SetToken(t) ==
  /\ token # t
  /\ token' = t
  /\ UNCHANGED <<isAuthenticated, checking, authPhase, effectPending, found,
                 screen>>
  /\ UNCHANGED exceptAuth

\* the component is mounted: useState(false), useState(true)
MountAuth(c) ==
  /\ authPhase[c] = "unmounted"
  /\ isAuthenticated' = [isAuthenticated EXCEPT ![c] = FALSE]
  /\ checking' = [checking EXCEPT ![c] = TRUE]
  /\ effectPending' = [effectPending EXCEPT ![c] = TRUE]
  /\ found' = [found EXCEPT ![c] = "unchecked"]
  /\ authPhase' = [authPhase EXCEPT ![c] = "render"]
  /\ UNCHANGED <<token, screen>>
  /\ UNCHANGED exceptAuth

\* React calls WithAuthComponent(props)
RenderAuth(c) ==
  /\ authPhase[c] = "render"
  /\ screen' = [screen EXCEPT ![c] =
                  WithAuthComponent(isAuthenticated[c], checking[c])]
  /\ authPhase' = [authPhase EXCEPT ![c] =
                     IF effectPending[c] THEN "effect" ELSE "idle"]
  /\ UNCHANGED <<token, isAuthenticated, checking, effectPending, found>>
  /\ UNCHANGED exceptAuth

\* the effect runs after the first render: reads the token, sets both states
\* (one batch), and React renders the component again
CheckAuthentication(c) ==
  /\ authPhase[c] = "effect"
  /\ found' = [found EXCEPT ![c] = token]
  /\ isAuthenticated' = [isAuthenticated EXCEPT ![c] = Truthy(token)]
  /\ checking' = [checking EXCEPT ![c] = FALSE]
  /\ effectPending' = [effectPending EXCEPT ![c] = FALSE]
  /\ authPhase' = [authPhase EXCEPT ![c] = "render"]
  /\ UNCHANGED <<token, screen>>
  /\ UNCHANGED exceptAuth

\* the parent renders the component again; its state is kept
RerenderAuth(c) ==
  /\ authPhase[c] = "idle"
  /\ authPhase' = [authPhase EXCEPT ![c] = "render"]
  /\ UNCHANGED <<token, isAuthenticated, checking, effectPending, found,
                 screen>>
  /\ UNCHANGED exceptAuth

\* the component is unmounted; its state is dropped
UnmountAuth(c) ==
  /\ authPhase[c] = "idle"
  /\ authPhase' = [authPhase EXCEPT ![c] = "unmounted"]
  /\ screen' = [screen EXCEPT ![c] = "none"]
  /\ found' = [found EXCEPT ![c] = "unchecked"]
  /\ isAuthenticated' = [isAuthenticated EXCEPT ![c] = FALSE]
  /\ checking' = [checking EXCEPT ![c] = TRUE]
  /\ UNCHANGED <<token, effectPending>>
  /\ UNCHANGED exceptAuth

NextAuth ==
  \/ \E t \in Tokens : SetToken(t)
  \/ \E c \in AuthComponents : MountAuth(c)
  \/ \E c \in AuthComponents : RenderAuth(c)
  \/ \E c \in AuthComponents : CheckAuthentication(c)
  \/ \E c \in AuthComponents : RerenderAuth(c)
  \/ \E c \in AuthComponents : UnmountAuth(c)

----------------------------------------------------------------------------
(* compose (react-hoc-example.tsx:116-121)                                 *)
(* A component is written as the sequence of the components it is built    *)
(* of, outermost first: withAuth(withLoading(UserProfile)) is              *)
(* <<"WithAuthComponent", "WithLoadingComponent", "UserProfile">>.         *)

MaxFuncs == 3

\* the higher-order components of the file
Hocs == {"withLoading", "withUserData", "withAuth"}

\* the components of the file that are not made by one
BaseComponents == {<<"UserProfile">>, <<"UserProfileComponent">>}

\* withLoading(WrappedComponent)
withLoading(WrappedComponent) == <<"WithLoadingComponent">> \o WrappedComponent

\* withUserData(WrappedComponent)
withUserData(WrappedComponent) == <<"WithUserDataComponent">> \o WrappedComponent

\* withAuth(WrappedComponent)
withAuth(WrappedComponent) == <<"WithAuthComponent">> \o WrappedComponent

\* func(acc)
Call(func, acc) ==
  CASE func = "withLoading" -> withLoading(acc)
    [] func = "withUserData" -> withUserData(acc)
    [] func = "withAuth" -> withAuth(acc)

\* funcs.reduce((acc, func) => func(acc), component): first to last
RECURSIVE reduce(_, _)
reduce(fs, acc) ==
  IF fs = <<>> THEN acc
  ELSE reduce(Tail(fs), Call(Head(fs), acc))

\* funcs.reduceRight((acc, func) => func(acc), component): last to first
RECURSIVE reduceRight(_, _)
reduceRight(fs, acc) ==
  IF fs = <<>> THEN acc
  ELSE reduceRight(SubSeq(fs, 1, Len(fs) - 1), Call(fs[Len(fs)], acc))

\* compose(...funcs)(component)
compose(fs, c) == reduceRight(fs, c)

\* const ProtectedUserProfile = withAuth(withLoading(UserProfile))
ProtectedUserProfile == withAuth(withLoading(<<"UserProfile">>))

FuncLists == UNION {[1..n -> Hocs] : n \in 0..MaxFuncs}

NotComposed == <<>>

InitCompose ==
  /\ funcs = <<>>
  /\ component = <<"UserProfile">>
  /\ composed = NotComposed

\* the arguments of compose(...)(...) are chosen
InitComposeArguments ==
  /\ funcs \in FuncLists
  /\ component \in BaseComponents
  /\ composed = NotComposed

\* compose(...funcs)(component) is evaluated
Compose ==
  /\ composed = NotComposed
  /\ composed' = compose(funcs, component)
  /\ UNCHANGED <<funcs, component>>
  /\ UNCHANGED exceptCompose

NextCompose == Compose

----------------------------------------------------------------------------
(* swapArrayElements, swapArrayElementsInPlace                             *)
(* (lesson-05-generics.ts:540-582)                                         *)
(* A JavaScript array is a sequence; its element at index i (from 0) is    *)
(* the element i + 1 of the sequence.                                      *)

MaxLen == 3

MaxSwaps == 2

\* the elements of the arrays
Elements == {"x", "y", "z"}

Arrays == UNION {[1..n -> Elements] : n \in 0..MaxLen}

\* the indices passed: below, inside and past every array
Indices == -1..MaxLen

IndexOutOfBounds == "Index out of bounds"

\* a[i]
At(a, i) == IF i >= 0 /\ i < Len(a) THEN a[i + 1] ELSE "undefined"

\* a[i] = v: an index past the end grows the array, a negative one only adds
\* a property
Put(a, i, v) ==
  IF i < 0 THEN a
  ELSE [k \in 1..(IF i + 1 > Len(a) THEN i + 1 ELSE Len(a)) |->
          IF k = i + 1 THEN v ELSE IF k <= Len(a) THEN a[k] ELSE "undefined"]

\* the test of the indices with > in place of >=
OutOfBoundsExclusive(a, i1, i2) ==
  i1 < 0 \/ i1 > Len(a) \/ i2 < 0 \/ i2 > Len(a)

\* index1 < 0 || index1 >= arr.length || index2 < 0 || index2 >= arr.length
OutOfBounds(a, i1, i2) ==
  i1 < 0 \/ i1 >= Len(a) \/ i2 < 0 \/ i2 >= Len(a)

\* const result = arr, in place of a copy: no array is made
NoSpread(h, ref) == [heap |-> h, ref |-> ref]

\* [...arr]: a new array with the elements of arr
Spread(h, ref) == [heap |-> Append(h, h[ref]), ref |-> Len(h) + 1]

\* [result[index1], result[index2]] = [result[index2], result[index1]]
Destructure(a, i1, i2) ==
  LET right == <<At(a, i2), At(a, i1)>>
  IN  Put(Put(a, i1, right[1]), i2, right[2])

\* swapArrayElements(arr, index1, index2) for the array arr = h[ref]: what
\* it throws, the arrays after the call, and the array returned
swapArrayElements(h, ref, i1, i2) ==
  IF OutOfBounds(h[ref], i1, i2)
    THEN [threw |-> IndexOutOfBounds, heap |-> h, result |-> 0]
  ELSE IF i1 = i2
    THEN [threw |-> "none", heap |-> Spread(h, ref).heap,
          result |-> Spread(h, ref).ref]
  ELSE LET result == Spread(h, ref)
       IN  [threw |-> "none",
            heap |-> [result.heap EXCEPT ![result.ref] =
                        Destructure(result.heap[result.ref], i1, i2)],
            result |-> result.ref]

\* arr[index1] = arr[index2]; arr[index2] = arr[index1], without temp
AssignWithoutTemp(a, i1, i2) ==
  LET first == Put(a, i1, At(a, i2))
  IN  Put(first, i2, At(first, i1))

\* const temp = arr[index1]; arr[index1] = arr[index2]; arr[index2] = temp
AssignWithTemp(a, i1, i2) ==
  LET temp == At(a, i1)
      first == Put(a, i1, At(a, i2))
  IN  Put(first, i2, temp)

\* swapArrayElementsInPlace(arr, index1, index2): what it throws and the
\* array given after the call
swapArrayElementsInPlace(a, i1, i2) ==
  IF OutOfBounds(a, i1, i2)
    THEN [threw |-> IndexOutOfBounds, given |-> a]
  ELSE IF i1 = i2
    THEN [threw |-> "none", given |-> a]
  ELSE [threw |-> "none", given |-> AssignWithTemp(a, i1, i2)]

InitSwap ==
  /\ original = <<>>
  /\ index1 = 0
  /\ index2 = 0
  /\ heap = <<original>>
  /\ chain = <<1>>
  /\ threw = "not called"
  /\ arr = original
  /\ inPlaceCalls = 0
  /\ inPlaceThrew = "not called"

\* the array and the indices are chosen
InitSwapArguments ==
  /\ original \in Arrays
  /\ index1 \in Indices
  /\ index2 \in Indices
  /\ heap = <<original>>
  /\ chain = <<1>>
  /\ threw = "not called"
  /\ arr = original
  /\ inPlaceCalls = 0
  /\ inPlaceThrew = "not called"

\* next = swapArrayElements(last, index1, index2), for the last array of chain
SwapArrayElements ==
  /\ Len(chain) <= MaxSwaps
  /\ threw # IndexOutOfBounds
  /\ LET call == swapArrayElements(heap, chain[Len(chain)], index1, index2)
     IN  /\ threw' = call.threw
         /\ heap' = call.heap
         /\ chain' = IF call.threw = IndexOutOfBounds
                       THEN chain ELSE Append(chain, call.result)
  /\ UNCHANGED <<original, index1, index2, arr, inPlaceCalls, inPlaceThrew>>
  /\ UNCHANGED exceptSwap

\* swapArrayElementsInPlace(arr, index1, index2)
SwapArrayElementsInPlace ==
  /\ inPlaceCalls < MaxSwaps
  /\ inPlaceThrew # IndexOutOfBounds
  /\ LET call == swapArrayElementsInPlace(arr, index1, index2)
     IN  /\ inPlaceThrew' = call.threw
         /\ arr' = call.given
         /\ inPlaceCalls' = IF call.threw = IndexOutOfBounds
                              THEN inPlaceCalls ELSE inPlaceCalls + 1
  /\ UNCHANGED <<original, index1, index2, heap, chain, threw>>
  /\ UNCHANGED exceptSwap

NextSwap ==
  \/ SwapArrayElements
  \/ SwapArrayElementsInPlace

----------------------------------------------------------------------------
(* withLoading (react-hoc-example.tsx:16-28)                               *)
(* Props are a function from the names of the props given to their values. *)

\* the props of UserProfile, and the one withLoading adds
PropNames == {"name", "email", "isLoading"}

\* the values a prop may be given
ValuesOf(k) ==
  CASE k = "name" -> {"John", "Jane"}
    [] k = "email" -> {"john@example.com"}
    [] k = "isLoading" -> {"true", "false", "undefined"}

\* every choice of props: each one given or left out
LoadingProps ==
  UNION {{p \in [S -> UNION {ValuesOf(k) : k \in PropNames}] :
            \A k \in S : p[k] \in ValuesOf(k)} : S \in SUBSET PropNames}

NoLoadingProps == [k \in {} |-> "undefined"]

\* props.isLoading, undefined when the prop is not given
IsLoading(p) == IF "isLoading" \in DOMAIN p THEN p["isLoading"] ELSE "undefined"

\* {...props} in place of {...restProps}: isLoading is passed on
RestWithIsLoading(p) == p

\* const { isLoading, ...restProps } = props
Rest(p) == [k \in DOMAIN p \ {"isLoading"} |-> p[k]]

\* WithLoadingComponent(props): what it returns
WithLoadingComponent(p) ==
  IF IsLoading(p) \notin Falsy
    THEN [kind |-> "Loading...", props |-> NoLoadingProps]
    ELSE [kind |-> "WrappedComponent", props |-> Rest(p)]

NotRendered == [kind |-> "none", props |-> NoLoadingProps]

InitLoading ==
  /\ loadingProps = NoLoadingProps
  /\ loadingPhase = "unmounted"
  /\ loadingOutput = NotRendered

\* <UserProfileWithLoading {...p} /> is mounted
MountLoading(p) ==
  /\ loadingPhase = "unmounted"
  /\ loadingProps' = p
  /\ loadingPhase' = "render"
  /\ UNCHANGED loadingOutput
  /\ UNCHANGED exceptLoading

\* React calls WithLoadingComponent(props)
RenderLoading ==
  /\ loadingPhase = "render"
  /\ loadingOutput' = WithLoadingComponent(loadingProps)
  /\ loadingPhase' = "idle"
  /\ UNCHANGED loadingProps
  /\ UNCHANGED exceptLoading

\* the parent renders the component again with props p
RerenderLoading(p) ==
  /\ loadingPhase = "idle"
  /\ loadingProps' = p
  /\ loadingPhase' = "render"
  /\ UNCHANGED loadingOutput
  /\ UNCHANGED exceptLoading

NextLoading ==
  \/ \E p \in LoadingProps : MountLoading(p)
  \/ RenderLoading
  \/ \E p \in LoadingProps : RerenderLoading(p)

----------------------------------------------------------------------------
(* assertIsString (unnamed/part_002:197-201 and 489-493)                   *)
(* A JavaScript value is written as the text of an expression giving it.   *)

MaxAsserts == 2

\* the two copies of the function
AssertCopies == {"part_002_197", "part_002_489"}

\* values of type unknown
JsValues ==
  {"'hello'", "''", "42", "0", "true", "null", "undefined",
   "new String('hello')"}

\* typeof value
typeof(value) ==
  CASE value \in {"'hello'", "''"} -> "string"
    [] value \in {"42", "0"} -> "number"
    [] value = "true" -> "boolean"
    [] value = "undefined" -> "undefined"
    [] value \in {"null", "new String('hello')"} -> "object"

NotAStringError == "Value is not a string"

\* if (!value) in place of the test of typeof
IsFalsy(value) == value \in {"''", "0", "null", "undefined"}

\* if (typeof value !== "string")
NotString(value) == typeof(value) # "string"

\* assertIsString(value): what it throws, and the value after the call
assertIsString(value) ==
  IF NotString(value)
    THEN [threw |-> NotAStringError, after |-> value]
    ELSE [threw |-> "none", after |-> value]

InitAssert == asserted = <<>>

\* assertIsString(value) is called, in one of its copies
AssertIsString(copy, value) ==
  /\ Len(asserted) < MaxAsserts
  /\ asserted' = Append(asserted,
       [copy |-> copy, value |-> value,
        threw |-> assertIsString(value).threw,
        after |-> assertIsString(value).after])
  /\ UNCHANGED exceptAssert

NextAssert ==
  \E copy \in AssertCopies, value \in JsValues : AssertIsString(copy, value)

----------------------------------------------------------------------------
InitIdle ==
  /\ InitTemperature
  /\ InitDatabaseConnection
  /\ InitFetch
  /\ InitBoundary
  /\ InitAuth
  /\ InitCompose
  /\ InitSwap
  /\ InitLoading
  /\ InitAssert

NextClasses ==
  \/ \E h \in CelsiusInputs : SetCelsius(h)
  \/ \E h \in FahrenheitInputs : SetFahrenheit(h)
  \/ GetInstance

SpecClasses == InitIdle /\ [][NextClasses]_vars

SpecFetch == InitIdle /\ [][NextFetch]_vars

SpecBoundary == InitIdle /\ [][NextBoundary]_vars

SpecAuth == InitIdle /\ [][NextAuth]_vars

\* the arguments of compose are chosen, the rest is idle
InitComposeCalls ==
  /\ InitTemperature
  /\ InitDatabaseConnection
  /\ InitFetch
  /\ InitBoundary
  /\ InitAuth
  /\ InitSwap
  /\ InitLoading
  /\ InitAssert
  /\ InitComposeArguments

SpecCompose == InitComposeCalls /\ [][NextCompose]_vars

\* the arguments of the swaps are chosen, the rest is idle
InitSwapCalls ==
  /\ InitTemperature
  /\ InitDatabaseConnection
  /\ InitFetch
  /\ InitBoundary
  /\ InitAuth
  /\ InitCompose
  /\ InitLoading
  /\ InitAssert
  /\ InitSwapArguments

SpecSwap == InitSwapCalls /\ [][NextSwap]_vars

SpecLoading == InitIdle /\ [][NextLoading]_vars

SpecAssert == InitIdle /\ [][NextAssert]_vars

----------------------------------------------------------------------------
\* C1: after any sequence of assignments to celsius and fahrenheit, the
\* temperature read through the celsius getter is never below absolute zero.
C1_NeverBelowAbsoluteZero == celsius >= AbsoluteZero

\* C2: assigning a value below -273.15 to celsius throws 'Temperature cannot
\* be below absolute zero' and leaves the stored temperature unchanged;
\* assigning a value >= -273.15 stores exactly that value, so that a following
\* read of celsius returns it.
C2_CelsiusSetter ==
  tempOp.kind = "setCelsius" =>
    IF tempOp.value < AbsoluteZero
      THEN tempOp.threw = BelowAbsoluteZero /\ celsius = tempOp.before
      ELSE tempOp.threw = NoError /\ celsius = tempOp.value

C2_Witness ==
  /\ tempOp.kind = "setCelsius"
  /\ tempOp.value = AbsoluteZero
  /\ tempOp.before # AbsoluteZero
  /\ celsius = AbsoluteZero

\* C3: the promise returned by fetchDataSafe(url) never rejects: when the
\* request fails or reading the response body fails it resolves to null, and
\* otherwise it resolves to the body text.
C3_NeverRejects ==
  \A c \in FetchCalls :
    /\ fetches[c].settled # "rejected"
    /\ fetches[c].pc = "done" =>
         IF fetches[c].failure # "none"
           THEN fetches[c].settled = "fulfilled" /\ fetches[c].value = "null"
           ELSE fetches[c].settled = "fulfilled" /\ fetches[c].value = "text"

\* the render() of the boundary has run for the current state and props
Rendered == phase \in {"children", "didCatch", "committed"}

\* C4 (as claimed): once a child has thrown, the boundary holds hasError = TRUE
\* and that error until the state is reset, and every render shows the
\* fallback prop when one is supplied and otherwise the default panel, never
\* the children; while hasError is FALSE, render returns the children.
C4_FallbackWhenSupplied ==
  /\ thrown # "none" => state.hasError /\ state.error = thrown
  /\ Rendered =>
       IF state.hasError
         THEN output = IF props.fallback # "undefined"
                         THEN [kind |-> "fallback", node |-> props.fallback]
                         ELSE [kind |-> "defaultPanel", node |-> state.error]
         ELSE output.kind = "children"

\* C4 (amended): as above, with the fallback prop shown when it is truthy and
\* the default panel shown when it is absent or falsy (null, false, 0, '').
C4_FallbackWhenTruthy ==
  /\ thrown # "none" => state.hasError /\ state.error = thrown
  /\ Rendered =>
       IF state.hasError
         THEN output = IF props.fallback = "customNode"
                         THEN [kind |-> "fallback", node |-> props.fallback]
                         ELSE [kind |-> "defaultPanel", node |-> state.error]
         ELSE output.kind = "children"

\* a child threw, the parent has since rendered the boundary with a child
\* that would not throw, and the boundary still shows the fallback prop
C4_Witness ==
  /\ thrown # "none"
  /\ phase = "committed"
  /\ props.userId = 123
  /\ output.kind = "fallback"

\* C5: every call to getInstance() returns the same object, and at most one
\* DatabaseConnection is ever constructed.
C5_Singleton == Cardinality(returned) <= 1 /\ constructed <= 1

C5_Witness == calls >= 3 /\ returned = {1} /\ constructed = 1

\* WithAuthComponent has been called for the current state of component c
RenderedAuth(c) == authPhase[c] \in {"effect", "idle"}

\* C6 (as claimed): a component made by withAuth never shows the wrapped
\* component before its check has run nor when the check found no token; it
\* shows 'Checking authentication...' until the check completes, then
\* 'Please log in' if the token is absent and the wrapped component if it is
\* present.
C6_WrappedIffTokenPresent ==
  \A c \in AuthComponents :
    /\ screen[c] = "WrappedComponent" => found[c] \notin {"unchecked", "null"}
    /\ RenderedAuth(c) =>
         screen[c] = IF found[c] = "unchecked" THEN "Checking authentication..."
                     ELSE IF found[c] = "null" THEN "Please log in"
                     ELSE "WrappedComponent"

\* C6 (amended): as above, with 'Please log in' shown if the token is absent
\* or the empty string, and the wrapped component if it is a non-empty string.
C6_WrappedIffTokenNonEmpty ==
  \A c \in AuthComponents :
    /\ screen[c] = "WrappedComponent" => found[c] \notin {"unchecked", "null"}
    /\ RenderedAuth(c) =>
         screen[c] = IF found[c] = "unchecked" THEN "Checking authentication..."
                     ELSE IF found[c] \in {"null", "emptyString"}
                       THEN "Please log in"
                     ELSE "WrappedComponent"

\* one component checked while a token was stored and shows the wrapped
\* component, another checked after it was removed and shows 'Please log in'
C6_Witness ==
  \E c, d \in AuthComponents :
    /\ found[c] = "abc123" /\ screen[c] = "WrappedComponent"
    /\ found[d] = "null" /\ screen[d] = "Please log in"
    /\ authPhase[c] = "idle" /\ authPhase[d] = "idle"

\* f1(f2(...fn(c))), by the definition of nesting
RECURSIVE Nested(_, _)
Nested(fs, c) == IF fs = <<>> THEN c ELSE Call(Head(fs), Nested(Tail(fs), c))

\* C10: compose(f1, ..., fn)(c) returns f1(f2(...fn(c))); in particular
\* compose(withAuth, withLoading)(UserProfile) is built as
\* withAuth(withLoading(UserProfile)), and compose()(c) is c.
C10_ComposeRightToLeft ==
  composed # NotComposed =>
    /\ composed = Nested(funcs, component)
    /\ funcs = <<>> => composed = component
    /\ funcs = <<"withAuth", "withLoading">> /\ component = <<"UserProfile">>
         => composed = ProtectedUserProfile

C10_Witness ==
  /\ funcs = <<"withAuth", "withLoading">>
  /\ component = <<"UserProfile">>
  /\ composed = <<"WithAuthComponent", "WithLoadingComponent", "UserProfile">>

\* arr with its elements at i and j exchanged, for indices inside arr
Exchanged(a, i, j) ==
  [k \in 1..Len(a) |->
     IF k = i + 1 THEN a[j + 1] ELSE IF k = j + 1 THEN a[i + 1] ELSE a[k]]

InRange == index1 \in 0..(Len(original) - 1) /\ index2 \in 0..(Len(original) - 1)

\* C7: for indices inside arr, swapArrayElements(arr, i, j) returns a new
\* array of the same length with the elements at i and j exchanged and the
\* others as in arr, and leaves arr unchanged (also when i = j).
C7_SwapReturnsNewArray ==
  InRange =>
    \A k \in 1..(Len(chain) - 1) :
      /\ chain[k + 1] \notin {chain[n] : n \in 1..k}
      /\ heap[chain[k]] =
           (IF k % 2 = 1 THEN original ELSE Exchanged(original, index1, index2))
      /\ heap[chain[k + 1]] = Exchanged(heap[chain[k]], index1, index2)
      /\ Len(heap[chain[k + 1]]) = Len(heap[chain[k]])

C7_Witness ==
  /\ Len(chain) = 2
  /\ index1 # index2
  /\ heap[chain[1]] = <<"x", "y", "z">>
  /\ heap[chain[2]] = <<"z", "y", "x">>

\* C8: both functions throw 'Index out of bounds' exactly when index1 or
\* index2 is negative or >= arr.length, and then leave the array unchanged.
C8_ThrowsIffOutOfBounds ==
  LET outside == \/ index1 < 0 \/ index1 >= Len(original)
                 \/ index2 < 0 \/ index2 >= Len(original)
  IN  /\ threw # "not called" => (threw = IndexOutOfBounds <=> outside)
      /\ inPlaceThrew # "not called" =>
           (inPlaceThrew = IndexOutOfBounds <=> outside)
      /\ threw = IndexOutOfBounds => heap = <<original>> /\ chain = <<1>>
      /\ inPlaceThrew = IndexOutOfBounds => arr = original

C8_Witness ==
  /\ threw = IndexOutOfBounds
  /\ inPlaceThrew = IndexOutOfBounds
  /\ index1 = Len(original)
  /\ index2 = 0
  /\ Len(original) > 0

\* C9: for indices inside arr, the contents of arr after
\* swapArrayElementsInPlace equal the array swapArrayElements returns for the
\* same contents and indices, and either swap applied twice gives back the
\* original contents.
C9_SwapsAgree ==
  InRange =>
    /\ \A k \in 1..MaxSwaps :
         inPlaceCalls = k /\ Len(chain) > k => arr = heap[chain[k + 1]]
    /\ inPlaceCalls = 2 => arr = original
    /\ Len(chain) > 2 => heap[chain[3]] = original

\* both swaps applied twice to an array of different elements: after one
\* call each they agreed, after two the original contents are back
C9_Witness ==
  /\ inPlaceCalls = 2
  /\ Len(chain) = 3
  /\ original = <<"x", "y", "z">>
  /\ heap[chain[2]] = <<"x", "z", "y">>
  /\ heap[chain[3]] = original
  /\ arr = original

\* C11: the component made by withLoading shows 'Loading...' and not the
\* wrapped component whenever the prop isLoading is truthy; otherwise it shows
\* the wrapped component with every prop it was given except isLoading.
C11_LoadingHidesWrapped ==
  loadingPhase = "idle" =>
    IF "isLoading" \in DOMAIN loadingProps /\ loadingProps["isLoading"] = "true"
      THEN loadingOutput.kind = "Loading..."
      ELSE /\ loadingOutput.kind = "WrappedComponent"
           /\ DOMAIN loadingOutput.props = DOMAIN loadingProps \ {"isLoading"}
           /\ \A k \in DOMAIN loadingOutput.props :
                loadingOutput.props[k] = loadingProps[k]

\* the component was given isLoading = false with two other props and shows
\* the wrapped component with those two only
C11_Witness ==
  /\ loadingPhase = "idle"
  /\ DOMAIN loadingProps = {"name", "email", "isLoading"}
  /\ loadingProps["isLoading"] = "false"
  /\ loadingOutput.kind = "WrappedComponent"
  /\ DOMAIN loadingOutput.props = {"name", "email"}

\* the values that are strings; a String object is not one
JsStrings == {"'hello'", "''"}

\* C12: assertIsString(value) throws 'Value is not a string' exactly when
\* value is not a string, and returns normally without changing anything
\* when it is one.
C12_ThrowsIffNotString ==
  \A n \in 1..Len(asserted) :
    /\ asserted[n].threw = NotAStringError <=> asserted[n].value \notin JsStrings
    /\ asserted[n].value \in JsStrings =>
         asserted[n].threw = "none" /\ asserted[n].after = asserted[n].value

\* the empty string passed an assertion and 0 failed one
C12_Witness ==
  /\ Len(asserted) = 2
  /\ asserted[1].value = "''" /\ asserted[1].threw = "none"
  /\ asserted[2].value = "0" /\ asserted[2].threw = NotAStringError

====
